---- MODULE Spec2Model ----
(***************************************************************************)
(* telescope-client: a tracing Layer that turns log events into OTLP       *)
(* LogRecords, hands them over a bounded channel to one background thread, *)
(* which batches them and exports each batch over gRPC.                    *)
(*                                                                         *)
(* Producer threads run TelescopeLayer::on_event (src/src/lib.rs:38-82).   *)
(* The worker thread runs the closure of start_logging_thread              *)
(* (src/src/lib.rs:85-136).  The collector behind client.export is the     *)
(* environment: every call either returns Ok or Err.                       *)
(***************************************************************************)
EXTENDS Integers, Sequences, FiniteSets, TLC

(***************************************************************************)
(* Sizes.  The source uses sync_channel(1000) (lib.rs:24), a buffer cap of *)
(* 1000 (lib.rs:93) and a count threshold of 100 (lib.rs:98).  The model   *)
(* runs the same code with small values that keep their order relation     *)
(* (threshold < cap, threshold <= capacity); every formula below is stated *)
(* over the names, never over the numbers.                                 *)
(***************************************************************************)
QueueCapacity == 2
BufferCap == 3
FlushCount == 2

\* Durations in milliseconds, as written in the source.
FlushMillis == 1000
IdleSleepMillis == 100
RetrySleepMillis == 1000

\* Bounds of the exploration.
MaxEvents == 4      \* on_event calls that get past the level filter
MaxFailures == 2    \* consecutive Err results of client.export in one flush
MaxCaptured == 3    \* the same as MaxEvents, where every kind of event occurs

Threads == {"t1", "t2"}
ServiceName == "svc"

Min(a, b) == IF a < b THEN a ELSE b

(***************************************************************************)
(* Events of the host framework.  A field value is either a                *)
(* fmt::Arguments (what the macros pass for the message) or a &str; the    *)
(* visitor renders both with {:?}.                                         *)
(***************************************************************************)
Args(s) == [kind |-> "Arguments", text |-> s]
Str(s) == [kind |-> "str", text |-> s]
None == [some |-> FALSE]
Some(v) == [some |-> TRUE, value |-> v]

Levels == {"TRACE", "DEBUG", "INFO", "WARN", "ERROR"}

Events ==
  { [level |-> "TRACE", fields |-> [message |-> Args("a")], file |-> Some("m.rs"), line |-> Some(7)],
    [level |-> "DEBUG", fields |-> [count |-> Args("1")],   file |-> None,         line |-> None],
    [level |-> "INFO",  fields |-> [message |-> Args("a")], file |-> Some("m.rs"), line |-> Some(7)],
    [level |-> "WARN",  fields |-> [message |-> Str("b")],  file |-> None,         line |-> None],
    [level |-> "ERROR", fields |-> [message |-> Args("a"), count |-> Args("1")],
                                                            file |-> Some("m.rs"), line |-> None],
    [level |-> "INFO",  fields |-> [count |-> Args("1")],   file |-> Some("m.rs"), line |-> Some(7)] }

\* format!("{:?}", value): Arguments print their text, a str prints quoted.
DebugFmt(v) == IF v.kind = "str" THEN "\"" \o v.text \o "\"" ELSE v.text

\* event.record(&mut visitor): one HashMap entry per field.
FieldVisitor(e) == [n \in DOMAIN e.fields |-> DebugFmt(e.fields[n])]

\* The guard with DEBUG let through.
Forwarded_Debug(e) == e.level # "TRACE"

\* The guard of on_event.
Forwarded(e) == e.level = "INFO" \/ e.level = "WARN" \/ e.level = "ERROR"

\* The match with the WARN arm one off.
SeverityNumber_Warn12(level) ==
  CASE level = "TRACE" -> 1
    [] level = "DEBUG" -> 5
    [] level = "INFO"  -> 9
    [] level = "WARN"  -> 12
    [] level = "ERROR" -> 17

\* The match on the level inside the LogRecord literal.
SeverityNumber(level) ==
  CASE level = "TRACE" -> 1
    [] level = "DEBUG" -> 5
    [] level = "INFO"  -> 9
    [] level = "WARN"  -> 13
    [] level = "ERROR" -> 17

\* The two KeyValue entries of the attributes vector.
Attributes(e) ==
  << [key |-> "file", value |-> IF e.file.some THEN Some([StringValue |-> e.file.value]) ELSE None],
     [key |-> "line", value |-> IF e.line.some THEN Some([IntValue |-> e.line.value]) ELSE None] >>

\* The literal with the observed time taken by a second, later clock read.
LogRecord_ObservedLater(e, unix_nano, t) ==
  [ time_unix_nano |-> unix_nano,
    observed_time_unix_nano |-> unix_nano + 1,
    severity_number |-> SeverityNumber(e.level),
    severity_text |-> e.level,
    body |-> Some([StringValue |-> FieldVisitor(e)["message"]]),
    attributes |-> Attributes(e),
    dropped_attributes_count |-> 0,
    flags |-> 0,
    trace_id |-> << >>,
    span_id |-> << >>,
    thread |-> t ]

\* The LogRecord literal.  thread is not a field of the source's record: it
\* names the producer that built it, for the statements about one producer.
LogRecord(e, unix_nano, t) ==
  [ time_unix_nano |-> unix_nano,
    observed_time_unix_nano |-> unix_nano,
    severity_number |-> SeverityNumber(e.level),
    severity_text |-> e.level,
    body |-> Some([StringValue |-> FieldVisitor(e)["message"]]),
    attributes |-> Attributes(e),
    dropped_attributes_count |-> 0,
    flags |-> 0,
    trace_id |-> << >>,
    span_id |-> << >>,
    thread |-> t ]

\* The Resource literal of the request: one KeyValue, the service name.
Resource(service_name) ==
  [ attributes |-> << [key |-> "service.name",
                       value |-> Some([StringValue |-> service_name])] >>,
    dropped_attributes_count |-> 0 ]

\* The events of the runs that follow records through the worker: one of each
\* path through on_event.  The worker never reads a record's content.
PipelineEvents == {e \in Events : e.level \in {"TRACE", "INFO"}}

NoCall == [level |-> "none", result |-> "none"]

VARIABLES
  queue,      \* the sync_channel's buffer, oldest first
  wall,       \* reads of SystemTime::now so far; the value read is the count
  pcP,        \* per producer thread: "idle", "send" (inside tx.send), "panicked"
  pending,    \* per producer thread: the record handed to tx.send
  call,       \* the latest on_event call: the event's level and how the call went
  pcW,        \* the worker's position in its loop
  buffer,     \* the worker's Vec<LogRecord>
  elapsed,    \* last_send.elapsed() in ms, saturating at FlushMillis
  request,    \* the request handed to client.export
  calls,      \* the export calls of the flush in progress, with their results
  delivered,  \* the records of every request whose call returned Ok, in order
  slept,      \* ms the retry loop of the flush in progress has slept
  sinceOk     \* ms since the latest Ok of client.export (or the start), saturating

vars == <<queue, wall, pcP, pending, call, pcW, buffer, elapsed, request, calls, delivered,
          slept, sinceOk>>
producerVars == <<wall, pcP, pending, call>>
workerVars == <<pcW, buffer, elapsed, request, calls, delivered, slept, sinceOk>>

NoRecord == [thread |-> "none"]
NoRequest == [resource |-> None, log_records |-> << >>]

Init ==
  /\ queue = << >>
  /\ wall = 0
  /\ pcP = [t \in Threads |-> "idle"]
  /\ pending = [t \in Threads |-> NoRecord]
  /\ call = NoCall
  /\ pcW = "drain"
  /\ buffer = << >>
  /\ elapsed = 0
  /\ request = NoRequest
  /\ calls = << >>
  /\ delivered = << >>
  /\ slept = 0
  /\ sinceOk = 0

(***************************************************************************)
(* Producer threads: TelescopeLayer::on_event.  n bounds the exploration:  *)
(* an event that gets past the level filter is taken only while the clock  *)
(* was read fewer than n times.                                            *)
(***************************************************************************)

\* An event below INFO: the guard is false and on_event returns.
OnEventFiltered(t, e) ==
  /\ pcP[t] = "idle"
  /\ ~Forwarded(e)
  /\ call' = [level |-> e.level, result |-> "filtered"]
  /\ UNCHANGED <<queue, wall, pcP, pending>>
  /\ UNCHANGED workerVars

\* on_event with a missing message defaulted to an empty body and sent.
OnEventNoMessage_Default(t, e, n) ==
  /\ pcP[t] = "idle"
  /\ e.level \in {"INFO", "WARN", "ERROR"}
  /\ wall < n
  /\ "message" \notin DOMAIN e.fields
  /\ wall' = wall + 1
  /\ pcP' = [pcP EXCEPT ![t] = "send"]
  /\ pending' = [pending EXCEPT ![t] =
       [LogRecord([e EXCEPT !.fields = [message |-> Args("")]], wall + 1, t) EXCEPT !.body = None]]
  /\ call' = [level |-> e.level, result |-> "send"]
  /\ UNCHANGED queue
  /\ UNCHANGED workerVars

\* A forwarded event without a message field: the clock is read, then the
\* index values["message"] panics and the calling thread unwinds.
OnEventNoMessage(t, e, n) ==
  /\ pcP[t] = "idle"
  /\ Forwarded(e)
  /\ wall < n
  /\ "message" \notin DOMAIN FieldVisitor(e)
  /\ wall' = wall + 1
  /\ pcP' = [pcP EXCEPT ![t] = "panicked"]
  /\ call' = [level |-> e.level, result |-> "panicked"]
  /\ UNCHANGED <<queue, pending>>
  /\ UNCHANGED workerVars

\* A forwarded event with a message: the record is built and tx.send begins.
OnEventRecord(t, e, n) ==
  /\ pcP[t] = "idle"
  /\ Forwarded(e)
  /\ wall < n
  /\ "message" \in DOMAIN FieldVisitor(e)
  /\ wall' = wall + 1
  /\ pcP' = [pcP EXCEPT ![t] = "send"]
  /\ pending' = [pending EXCEPT ![t] = LogRecord(e, wall + 1, t)]
  /\ call' = [level |-> e.level, result |-> "send"]
  /\ UNCHANGED queue
  /\ UNCHANGED workerVars

OnEvent(t, e, n) ==
  \/ OnEventFiltered(t, e)
  \/ OnEventNoMessage(t, e, n)
  \/ OnEventRecord(t, e, n)

\* A send that never blocks (an unbounded channel).
Send_Unbounded(t) ==
  /\ pcP[t] = "send"
  /\ queue' = Append(queue, pending[t])
  /\ pcP' = [pcP EXCEPT ![t] = "idle"]
  /\ pending' = [pending EXCEPT ![t] = NoRecord]
  /\ UNCHANGED <<wall, call>>
  /\ UNCHANGED workerVars

\* try_send for send: a full channel is an error, and the unwrap panics.
Send_TrySend(t) ==
  /\ pcP[t] = "send"
  /\ IF Len(queue) < QueueCapacity
     THEN /\ queue' = Append(queue, pending[t])
          /\ pcP' = [pcP EXCEPT ![t] = "idle"]
     ELSE /\ queue' = queue
          /\ pcP' = [pcP EXCEPT ![t] = "panicked"]
  /\ pending' = [pending EXCEPT ![t] = NoRecord]
  /\ UNCHANGED <<wall, call>>
  /\ UNCHANGED workerVars

\* tx.send(record) completes: SyncSender::send blocks while the channel holds
\* its bound, then appends; on_event returns.
Send(t) ==
  /\ pcP[t] = "send"
  /\ Len(queue) < QueueCapacity
  /\ queue' = Append(queue, pending[t])
  /\ pcP' = [pcP EXCEPT ![t] = "idle"]
  /\ pending' = [pending EXCEPT ![t] = NoRecord]
  /\ UNCHANGED <<wall, call>>
  /\ UNCHANGED workerVars

(***************************************************************************)
(* The worker thread: the loop of start_logging_thread.                    *)
(***************************************************************************)

\* The drain without the break at the cap.
DrainTake_NoCap ==
  /\ pcW = "drain"
  /\ queue # << >>
  /\ buffer' = Append(buffer, Head(queue))
  /\ queue' = Tail(queue)
  /\ pcW' = "drain"
  /\ UNCHANGED <<elapsed, request, calls, delivered, slept, sinceOk>>
  /\ UNCHANGED producerVars

\* The drain inserting at the front of the buffer.
DrainTake_Front ==
  /\ pcW = "drain"
  /\ queue # << >>
  /\ buffer' = <<Head(queue)>> \o buffer
  /\ queue' = Tail(queue)
  /\ pcW' = IF Len(buffer') = BufferCap THEN "decide" ELSE "drain"
  /\ UNCHANGED <<elapsed, request, calls, delivered, slept, sinceOk>>
  /\ UNCHANGED producerVars

\* The drain taking the newest record of the channel.
DrainTake_Newest ==
  /\ pcW = "drain"
  /\ queue # << >>
  /\ buffer' = Append(buffer, queue[Len(queue)])
  /\ queue' = SubSeq(queue, 1, Len(queue) - 1)
  /\ pcW' = IF Len(buffer') = BufferCap THEN "decide" ELSE "drain"
  /\ UNCHANGED <<elapsed, request, calls, delivered, slept, sinceOk>>
  /\ UNCHANGED producerVars

\* rx.try_recv() returns a record: push it, leave the while loop at the cap.
DrainTake ==
  /\ pcW = "drain"
  /\ queue # << >>
  /\ buffer' = Append(buffer, Head(queue))
  /\ queue' = Tail(queue)
  /\ pcW' = IF Len(buffer') = BufferCap THEN "decide" ELSE "drain"
  /\ UNCHANGED <<elapsed, request, calls, delivered, slept, sinceOk>>
  /\ UNCHANGED producerVars

\* rx.try_recv() returns Err(Empty): the while loop ends.
DrainEmpty ==
  /\ pcW = "drain"
  /\ queue = << >>
  /\ pcW' = "decide"
  /\ UNCHANGED <<queue, buffer, elapsed, request, calls, delivered, slept, sinceOk>>
  /\ UNCHANGED producerVars

\* The condition with > for >= on the count.
FlushDue_Strict == Len(buffer) > FlushCount \/ elapsed >= FlushMillis

\* The condition without the time threshold.
FlushDue_CountOnly == Len(buffer) >= FlushCount

\* The condition asking for a record to send as well.
FlushDue_NonEmpty ==
  (Len(buffer) >= FlushCount \/ elapsed >= FlushMillis) /\ buffer # << >>

\* The condition of the if.
FlushDue == Len(buffer) >= FlushCount \/ elapsed >= FlushMillis

Decide ==
  /\ pcW = "decide"
  /\ pcW' = IF FlushDue THEN "build" ELSE "sleep"
  /\ UNCHANGED <<queue, buffer, elapsed, request, calls, delivered, slept, sinceOk>>
  /\ UNCHANGED producerVars

\* The request built from a copy of the buffer, which keeps its records.
BuildRequest_Clone ==
  /\ pcW = "build"
  /\ request' = [resource |-> Some(Resource(ServiceName)), log_records |-> buffer]
  /\ pcW' = "call"
  /\ UNCHANGED <<queue, buffer, elapsed, calls, delivered, slept, sinceOk>>
  /\ UNCHANGED producerVars

\* The request built from the first FlushCount records only (drain(..100)).
BuildRequest_Chunk ==
  /\ pcW = "build"
  /\ request' = [resource |-> Some(Resource(ServiceName)),
                 log_records |-> SubSeq(buffer, 1, Min(Len(buffer), FlushCount))]
  /\ buffer' = SubSeq(buffer, Min(Len(buffer), FlushCount) + 1, Len(buffer))
  /\ pcW' = "call"
  /\ UNCHANGED <<queue, elapsed, calls, delivered, slept, sinceOk>>
  /\ UNCHANGED producerVars

\* The request of a retry built without the resource.
BuildRequest_BareRetry ==
  /\ pcW = "build"
  /\ request' = [resource |-> IF calls = << >> THEN Some(Resource(ServiceName)) ELSE None,
                 log_records |-> buffer]
  /\ buffer' = << >>
  /\ pcW' = "call"
  /\ UNCHANGED <<queue, elapsed, calls, delivered, slept, sinceOk>>
  /\ UNCHANGED producerVars

\* A retry that sends the records of the failed call again.
BuildRequest_Resend ==
  /\ pcW = "build"
  /\ request' = [resource |-> Some(Resource(ServiceName)),
                 log_records |-> IF calls = << >> THEN buffer
                                 ELSE calls[1].request.log_records]
  /\ buffer' = << >>
  /\ pcW' = "call"
  /\ UNCHANGED <<queue, elapsed, calls, delivered, slept, sinceOk>>
  /\ UNCHANGED producerVars

\* The top of the inner loop: the request is built, its log_records being
\* buffer.drain(..).collect(), which empties the buffer.
BuildRequest ==
  /\ pcW = "build"
  /\ request' = [resource |-> Some(Resource(ServiceName)), log_records |-> buffer]
  /\ buffer' = << >>
  /\ pcW' = "call"
  /\ UNCHANGED <<queue, elapsed, calls, delivered, slept, sinceOk>>
  /\ UNCHANGED producerVars

\* What the collector can answer without an error: an
\* ExportLogsServiceResponse with no partial_success, or with one that
\* rejects every record of the request.
Responses(req) ==
  { [partial_success |-> None],
    [partial_success |-> Some([rejected_log_records |-> Len(req.log_records),
                               error_message |-> "e"])] }

\* An Ok whose response rejects records taken for a failure and retried.
ExportOk_PartialRetry(resp) ==
  /\ pcW = "call"
  /\ resp \in Responses(request)
  /\ calls' = Append(calls, [request |-> request, ok |-> TRUE, response |-> resp])
  /\ IF resp.partial_success.some /\ resp.partial_success.value.rejected_log_records > 0
     THEN /\ pcW' = "retry_sleep"
          /\ UNCHANGED <<delivered, sinceOk>>
     ELSE /\ pcW' = "reset"
          /\ delivered' = delivered \o request.log_records
          /\ sinceOk' = 0
  /\ request' = NoRequest
  /\ UNCHANGED <<queue, buffer, elapsed, slept>>
  /\ UNCHANGED producerVars

\* client.export(request) returns Ok(_) with any response: break.
ExportOk(resp) ==
  /\ pcW = "call"
  /\ resp \in Responses(request)
  /\ calls' = Append(calls, [request |-> request, ok |-> TRUE, response |-> resp])
  /\ delivered' = delivered \o request.log_records
  /\ request' = NoRequest
  /\ pcW' = "reset"
  /\ sinceOk' = 0
  /\ UNCHANGED <<queue, buffer, elapsed, slept>>
  /\ UNCHANGED producerVars

\* An Err that leaves the inner loop and drains again.
ExportErr_Redrain ==
  /\ pcW = "call"
  /\ Len(calls) < MaxFailures
  /\ calls' = Append(calls, [request |-> request, ok |-> FALSE])
  /\ request' = NoRequest
  /\ pcW' = "drain"
  /\ UNCHANGED <<queue, buffer, elapsed, delivered, slept, sinceOk>>
  /\ UNCHANGED producerVars

\* An Err that also restarts the last-flush clock.
ExportErr_ResetsClock ==
  /\ pcW = "call"
  /\ Len(calls) < MaxFailures
  /\ calls' = Append(calls, [request |-> request, ok |-> FALSE])
  /\ request' = NoRequest
  /\ elapsed' = 0
  /\ pcW' = "retry_sleep"
  /\ UNCHANGED <<queue, buffer, delivered, slept, sinceOk>>
  /\ UNCHANGED producerVars

\* An Err that ends the thread (the result unwrapped).
ExportErr_Abort ==
  /\ pcW = "call"
  /\ Len(calls) < MaxFailures
  /\ calls' = Append(calls, [request |-> request, ok |-> FALSE])
  /\ request' = NoRequest
  /\ pcW' = "exited"
  /\ UNCHANGED <<queue, buffer, elapsed, delivered, slept, sinceOk>>
  /\ UNCHANGED producerVars

\* client.export(request) returns Err: the request was moved into the call
\* and is gone; the worker goes to sleep one second.
ExportErr ==
  /\ pcW = "call"
  /\ Len(calls) < MaxFailures
  /\ calls' = Append(calls, [request |-> request, ok |-> FALSE])
  /\ request' = NoRequest
  /\ pcW' = "retry_sleep"
  /\ UNCHANGED <<queue, buffer, elapsed, delivered, slept, sinceOk>>
  /\ UNCHANGED producerVars

\* A retry delay that grows with the number of failed calls.
RetrySleep_Backoff ==
  /\ pcW = "retry_sleep"
  /\ elapsed' = Min(elapsed + RetrySleepMillis * Len(calls), FlushMillis)
  /\ slept' = slept + RetrySleepMillis * Len(calls)
  /\ sinceOk' = Min(sinceOk + RetrySleepMillis * Len(calls), FlushMillis)
  /\ pcW' = "build"
  /\ UNCHANGED <<queue, buffer, request, calls, delivered>>
  /\ UNCHANGED producerVars

\* thread::sleep(Duration::from_secs(1)), then the inner loop again.
RetrySleep ==
  /\ pcW = "retry_sleep"
  /\ elapsed' = Min(elapsed + RetrySleepMillis, FlushMillis)
  /\ pcW' = "build"
  /\ slept' = slept + RetrySleepMillis
  /\ sinceOk' = Min(sinceOk + RetrySleepMillis, FlushMillis)
  /\ UNCHANGED <<queue, buffer, request, calls, delivered>>
  /\ UNCHANGED producerVars

\* The outer loop again with last_send left as it was.
ResetClock_Skip ==
  /\ pcW = "reset"
  /\ slept' = 0
  /\ calls' = << >>
  /\ pcW' = "drain"
  /\ UNCHANGED <<queue, buffer, elapsed, request, delivered, sinceOk>>
  /\ UNCHANGED producerVars

\* After the Ok the inner loop again, with no drain pass before it.
ResetClock_NoDrain ==
  /\ pcW = "reset"
  /\ elapsed' = 0
  /\ calls' = << >>
  /\ pcW' = "build"
  /\ slept' = 0
  /\ UNCHANGED <<queue, buffer, request, delivered, sinceOk>>
  /\ UNCHANGED producerVars

\* last_send = Instant::now(), and the outer loop again.
ResetClock ==
  /\ pcW = "reset"
  /\ elapsed' = 0
  /\ calls' = << >>
  /\ pcW' = "drain"
  /\ slept' = 0
  /\ UNCHANGED <<queue, buffer, request, delivered, sinceOk>>
  /\ UNCHANGED producerVars

\* An idle iteration that throws the buffer away.
IdleSleep_Clear ==
  /\ pcW = "sleep"
  /\ elapsed' = Min(elapsed + IdleSleepMillis, FlushMillis)
  /\ sinceOk' = Min(sinceOk + IdleSleepMillis, FlushMillis)
  /\ buffer' = << >>
  /\ pcW' = "drain"
  /\ UNCHANGED <<queue, request, calls, delivered, slept>>
  /\ UNCHANGED producerVars

\* thread::sleep(Duration::from_millis(100)) in the else branch.
IdleSleep ==
  /\ pcW = "sleep"
  /\ elapsed' = Min(elapsed + IdleSleepMillis, FlushMillis)
  /\ pcW' = "drain"
  /\ sinceOk' = Min(sinceOk + IdleSleepMillis, FlushMillis)
  /\ UNCHANGED <<queue, buffer, request, calls, delivered, slept>>
  /\ UNCHANGED producerVars

\* Time passes outside the sleeps (a slow call, the scheduler): any further
\* delay is seen by the worker only through elapsed() >= 1000.
Tick ==
  /\ elapsed < FlushMillis
  /\ elapsed' = FlushMillis
  /\ sinceOk' = FlushMillis
  /\ UNCHANGED <<queue, pcW, buffer, request, calls, delivered, slept>>
  /\ UNCHANGED producerVars

Worker ==
  \/ DrainTake
  \/ DrainEmpty
  \/ Decide
  \/ BuildRequest
  \/ \E resp \in Responses(request) : ExportOk(resp)
  \/ ExportErr
  \/ RetrySleep
  \/ ResetClock
  \/ IdleSleep

Next ==
  \/ \E t \in Threads, e \in PipelineEvents : OnEvent(t, e, MaxEvents)
  \/ \E t \in Threads : Send(t)
  \/ Worker
  \/ Tick

Spec == Init /\ [][Next]_vars

\* The same program with one producer thread that emits every kind of event,
\* for the statements about what on_event makes of an event.
NextCapture ==
  \/ \E e \in Events : OnEvent("t1", e, MaxCaptured)
  \/ Send("t1")
  \/ Worker
  \/ Tick

SpecCapture == Init /\ [][NextCapture]_vars

\* One more captured record than the channel and the buffer hold together.
MaxLoad == QueueCapacity + BufferCap + 1

\* The same program with one producer thread that captures MaxLoad records,
\* for the statements about the records the pipeline holds.
NextLoad ==
  \/ \E e \in PipelineEvents : OnEvent("t1", e, MaxLoad)
  \/ Send("t1")
  \/ Worker
  \/ Tick

SpecLoad == Init /\ [][NextLoad]_vars

\* The worker thread is scheduled for ever, and the collector fails at most
\* MaxFailures times in a row (the guard of ExportErr).
FairSpec == Spec /\ WF_vars(Worker)

\* And a producer thread whose send can complete is scheduled, too.
FairSendSpec == FairSpec /\ \A t \in Threads : WF_vars(Send(t))

(***************************************************************************)
(* Statements                                                              *)
(***************************************************************************)
Range(s) == {s[i] : i \in 1..Len(s)}

\* Every record on_event can build in the runs of Spec.
Records ==
  { LogRecord(e, n, t) :
      e \in {x \in PipelineEvents : Forwarded(x) /\ "message" \in DOMAIN x.fields},
      n \in 1..MaxEvents, t \in Threads }

\* C1: every record that on_event put on the channel is eventually among the
\* records of a request whose export call returned Ok.
C1_NoRecordLost ==
  \A r \in Records : (r \in Range(queue)) ~> (r \in Range(delivered))

\* C2: every export call of one flush, and the request about to be sent in
\* it, carries the records of the first call of that flush, in the same order.
C2_IdempotentRetry ==
  /\ \A i \in 1..Len(calls) :
       calls[i].request.log_records = calls[1].request.log_records
  /\ (pcW = "call" /\ calls # << >>) =>
       request.log_records = calls[1].request.log_records

\* C3: the channel never holds more than QueueCapacity records; a producer
\* inside send stays there with its record until the channel has room, and
\* leaves only by appending exactly that record.
C3_Backpressure ==
  /\ Len(queue) <= QueueCapacity
  /\ [][ /\ Len(queue') <= QueueCapacity
         /\ \A t \in Threads :
              pcP[t] = "send" =>
                \/ pcP'[t] = "send" /\ pending'[t] = pending[t]
                \/ /\ Len(queue) < QueueCapacity
                   /\ pcP'[t] = "idle"
                   /\ queue' = Append(queue, pending[t]) ]_vars

C3_Witness ==
  \E t \in Threads : pcP[t] = "send" /\ Len(queue) = QueueCapacity

\* C4: an on_event call for a TRACE or DEBUG event changes neither the
\* channel nor any other state of the producers or the worker.
C4_FilteredNoEffect ==
  [][ \A t \in Threads, e \in Events :
        (e.level \in {"TRACE", "DEBUG"} /\ OnEvent(t, e, MaxCaptured)) =>
          UNCHANGED <<queue, wall, pcP, pending, workerVars>> ]_vars

C4_Witness ==
  call = [level |-> "DEBUG", result |-> "filtered"] /\ queue # << >>

\* The ordinals as the specification lists them.
DocumentedOrdinal(level) ==
  CASE level = "TRACE" -> 1
    [] level = "DEBUG" -> 5
    [] level = "INFO"  -> 9
    [] level = "WARN"  -> 13
    [] level = "ERROR" -> 17

C6_MissingBody ==
  [][ \A t \in Threads, e \in Events :
        ( /\ e.level \in {"INFO", "WARN", "ERROR"}
          /\ "message" \notin DOMAIN e.fields
          /\ OnEvent(t, e, MaxCaptured) ) =>
          /\ call'.result = "panicked"
          /\ pcP'[t] = "panicked"
          /\ pending'[t] = NoRecord
          /\ queue' = queue ]_vars

C6_Witness ==
  call = [level |-> "INFO", result |-> "panicked"] /\ queue # << >>

\* C7: leaving the decision point the worker goes to build a request exactly
\* when the buffer holds FlushCount records or FlushMillis have passed since
\* last_send; otherwise it sleeps and drains again, with no export call.
C7_FlushIff ==
  [][ /\ (pcW = "decide" /\ pcW' # "decide") =>
           IF Len(buffer) >= FlushCount \/ elapsed >= FlushMillis
           THEN pcW' = "build"
           ELSE pcW' = "sleep"
      /\ (pcW = "sleep" /\ pcW' # "sleep") =>
           pcW' = "drain" /\ UNCHANGED <<request, calls, delivered, buffer>>
      /\ (pcW' = "call" /\ pcW # "call") => pcW = "build"
      /\ (pcW' = "build" /\ pcW # "build") => pcW \in {"decide", "retry_sleep"} ]_vars

C7_Witness ==
  /\ pcW = "sleep"
  /\ Len(buffer) = FlushCount - 1
  /\ elapsed = FlushMillis - IdleSleepMillis

\* C8: the buffer, the request in flight and every request handed to
\* client.export hold at most BufferCap records.
C8_BatchBounded ==
  /\ Len(buffer) <= BufferCap
  /\ Len(request.log_records) <= BufferCap
  /\ \A i \in 1..Len(calls) : Len(calls[i].request.log_records) <= BufferCap

C8_Witness ==
  pcW = "call" /\ Len(request.log_records) = BufferCap /\ queue # << >>

\* C9: among the delivered records, two built by the same thread appear in
\* the order in which that thread built them.
C9_OrderPreserved ==
  \A i, j \in 1..Len(delivered) :
    (i < j /\ delivered[i].thread = delivered[j].thread) =>
      delivered[i].time_unix_nano < delivered[j].time_unix_nano

C9_Witness ==
  \E i, j, k \in 1..Len(delivered) :
    /\ i < j /\ j < k
    /\ delivered[i].thread = delivered[k].thread
    /\ delivered[j].thread # delivered[i].thread
    /\ delivered[j].time_unix_nano < delivered[i].time_unix_nano

\* A flush has made its first export call and no call of it has returned Ok.
Exporting == pcW \in {"call", "retry_sleep"} \/ (pcW = "build" /\ calls # << >>)

\* C10: from the first export call of a flush until a call returns Ok the
\* worker takes nothing off the channel and puts nothing in its buffer, and it
\* drains again only after the Ok.
C10_Serialized ==
  [][ /\ Exporting =>
           /\ Len(queue') >= Len(queue)
           /\ SubSeq(queue', 1, Len(queue)) = queue
           /\ buffer' = << >>
           /\ pcW' \notin {"drain", "decide", "sleep"}
      /\ (pcW' = "reset" /\ pcW # "reset") =>
           pcW = "call" /\ calls'[Len(calls')].ok
      /\ (pcW' = "drain" /\ pcW # "drain") => pcW \in {"reset", "sleep"} ]_vars

C10_Witness ==
  /\ pcW = "reset"
  /\ Len(calls) = 3
  /\ ~calls[1].ok /\ ~calls[2].ok /\ calls[3].ok
  /\ Len(queue) = QueueCapacity

\* The failed calls among the export calls of the flush in progress.
Failed == {i \in 1..Len(calls) : ~calls[i].ok}

\* C11: the retry loop is left only by a call that returned Ok; a failed call
\* is followed by one sleep of RetrySleepMillis and another call, so the loop
\* has slept RetrySleepMillis once for every failed call, whatever their number.
C11_FixedDelayRetry ==
  /\ [](slept = RetrySleepMillis *
                  (IF pcW = "retry_sleep" THEN Cardinality(Failed) - 1
                                          ELSE Cardinality(Failed)))
  /\ [][ /\ (pcW = "call" /\ pcW' # "call") =>
              IF calls'[Len(calls')].ok THEN pcW' = "reset" ELSE pcW' = "retry_sleep"
         /\ (pcW = "retry_sleep" /\ pcW' # "retry_sleep") =>
              pcW' = "build" /\ slept' = slept + RetrySleepMillis
         /\ (pcW = "build" /\ pcW' # "build") => pcW' = "call" ]_vars

C11_Witness ==
  /\ pcW = "reset"
  /\ Cardinality(Failed) = MaxFailures
  /\ slept = MaxFailures * RetrySleepMillis

\* Every place a record can be, one after the other.
Held == queue \o buffer \o request.log_records \o delivered

\* C12: no record is at two places among the channel, the buffer, the request
\* in flight and the delivered stream, nor twice at one of them.
C12_NoDuplicate ==
  \A i, j \in 1..Len(Held) : Held[i] = Held[j] => i = j

C12_Witness ==
  /\ queue # << >> /\ request.log_records # << >> /\ delivered # << >>
  /\ pcW = "call"

C14_TimeFlushCarriesBurst ==
  [][ ( /\ pcW = "decide" /\ pcW' = "build"
        /\ Len(buffer) < FlushCount
        /\ wall < FlushCount
        /\ \A t \in Threads : pcP[t] # "send" ) =>
        queue = << >> ]_vars

\* C14 as amended: records waiting below the count threshold are not sent
\* before FlushMillis have elapsed since last_send, and the worker does come
\* to a flush whose first request carries records; whatever reached the
\* channel after the drain pass before the decision waits for the next flush.
C14_BurstFlushedByTime ==
  /\ [][ (pcW = "decide" /\ pcW' = "build" /\ Len(buffer) < FlushCount) =>
           elapsed >= FlushMillis ]_vars
  /\ (queue # << >> \/ buffer # << >>) ~>
       (pcW = "call" /\ calls = << >> /\ request.log_records # << >>)

C14_Witness ==
  /\ pcW = "call" /\ calls = << >> /\ delivered = << >>
  /\ wall = FlushCount - 1
  /\ Len(request.log_records) = FlushCount - 1
  /\ elapsed = FlushMillis

\* C15: a thread inside send leaves it only by enqueuing, whatever the export
\* calls return, and a thread panics only in an on_event call for an event
\* without a message.
C15_NoExportErrorSurfaced ==
  [][ \A t \in Threads :
        /\ pcP[t] = "send" => pcP'[t] \in {"send", "idle"}
        /\ (pcP'[t] = "panicked" /\ pcP[t] # "panicked") =>
             \E e \in Events : "message" \notin DOMAIN e.fields /\ OnEvent(t, e, MaxEvents) ]_vars

C15_Witness ==
  /\ pcW = "retry_sleep" /\ Cardinality(Failed) = MaxFailures
  /\ Len(queue) = QueueCapacity
  /\ \E t \in Threads : pcP[t] = "send"

\* C16: last_send is set only in the step after the call that returned Ok,
\* once; no other step of the worker moves the clock back.
C16_ClockResetAfterOk ==
  [][ /\ elapsed' < elapsed => (pcW = "reset" /\ pcW' = "drain" /\ elapsed' = 0)
      /\ (pcW' = "reset" /\ pcW # "reset") =>
           (pcW = "call" /\ calls'[Len(calls')].ok /\ elapsed' = elapsed)
      /\ (pcW = "reset" /\ pcW' # "reset") => (pcW' = "drain" /\ elapsed' = 0) ]_vars

C16_Witness ==
  /\ pcW = "reset"
  /\ Cardinality(Failed) = 1
  /\ elapsed = FlushMillis
  /\ queue = << >>

\* C17: a flush decided with fewer than FlushCount records in the buffer is
\* decided at least FlushMillis after the latest Ok of an export call.
C17_TimeFlushesApart ==
  [][ (pcW = "decide" /\ pcW' = "build" /\ Len(buffer) < FlushCount) =>
        sinceOk >= FlushMillis ]_vars

C17_Witness ==
  /\ pcW = "build" /\ calls = << >>
  /\ Len(buffer) = FlushCount - 1
  /\ Len(delivered) = FlushCount - 1

\* The flush in progress has made export calls and all of them failed.
Outage == calls # << >> /\ Failed = 1..Len(calls)

\* C18: while the export calls of a flush keep failing and the channel is
\* full, the channel stays as it is, every thread inside send stays there
\* with its record, and a thread that captures a record enters send.
C18_OutageBlocksProducers ==
  [][ (Outage /\ Len(queue) = QueueCapacity) =>
        /\ queue' = queue
        /\ \A t \in Threads :
             /\ pcP[t] = "send" => (pcP'[t] = "send" /\ pending'[t] = pending[t])
             /\ (pcP[t] = "idle" /\ pending'[t] # NoRecord) => pcP'[t] = "send" ]_vars

C18_Witness ==
  /\ Outage /\ Cardinality(Failed) = MaxFailures
  /\ Len(queue) = QueueCapacity
  /\ \A t \in Threads : pcP[t] = "send"

\* C19: in a drain pass try_recv always returns; a take moves the oldest
\* record of the channel to the end of the buffer; the pass ends when the
\* channel was found empty or the buffer reached BufferCap, and only then.
C19_DrainPass ==
  /\ [](pcW = "drain" => ENABLED (DrainTake \/ DrainEmpty))
  /\ [][ pcW = "drain" =>
           /\ buffer' # buffer =>
                /\ queue # << >>
                /\ buffer' = Append(buffer, Head(queue))
                /\ queue' = Tail(queue)
           /\ Len(queue') < Len(queue) => buffer' # buffer
           /\ pcW' # "drain" =>
                /\ pcW' = "decide"
                /\ (queue = << >> /\ buffer' = buffer) \/ Len(buffer') = BufferCap
           /\ (pcW' = "drain" /\ buffer' # buffer) => Len(buffer') < BufferCap ]_vars

C19_Witness ==
  /\ pcW = "drain" /\ buffer # << >> /\ queue # << >>
  /\ \A t \in Threads : pcP[t] = "send"
  /\ queue[1].thread # buffer[1].thread

\* C20: with neither threshold met the worker sleeps IdleSleepMillis and
\* drains again; no request is built or sent and the buffer is as it was.
C20_IdleKeepsBuffer ==
  [][ /\ ( /\ pcW = "decide" /\ pcW' # "decide"
           /\ Len(buffer) < FlushCount /\ elapsed < FlushMillis ) =>
             (pcW' = "sleep" /\ UNCHANGED <<buffer, request, calls, delivered, elapsed>>)
      /\ pcW = "sleep" => UNCHANGED <<buffer, request, calls, delivered>>
      /\ (pcW = "sleep" /\ pcW' # "sleep") =>
             /\ pcW' = "drain"
             /\ elapsed' = Min(elapsed + IdleSleepMillis, FlushMillis) ]_vars

C20_Witness ==
  /\ pcW = "drain"
  /\ Len(buffer) = FlushCount - 1
  /\ elapsed = 2 * IdleSleepMillis
  /\ delivered = << >>

\* The request names the service once, in its resource, and in no record.
ResourceOnce(req) ==
  /\ req.resource = Some(Resource(ServiceName))
  /\ Len(req.resource.value.attributes) = 1
  /\ \A k \in 1..Len(req.log_records) :
       /\ "resource" \notin DOMAIN req.log_records[k]
       /\ \A a \in 1..Len(req.log_records[k].attributes) :
            req.log_records[k].attributes[a].key # "service.name"

\* C21: the request in flight and every request of an export call made, a
\* retry like a first call, carries one resource naming the service given at
\* construction, and none of its records carries that name.
C21_OneResourcePerBatch ==
  /\ pcW = "call" => ResourceOnce(request)
  /\ \A i \in 1..Len(calls) : ResourceOnce(calls[i].request)

C21_Witness ==
  /\ pcW = "call" /\ Failed # {}
  /\ Len(calls[1].request.log_records) = FlushCount
  /\ queue # << >>

\* The positions of the worker inside its outer loop.
LoopPositions == {"drain", "decide", "build", "call", "retry_sleep", "reset", "sleep"}

\* C22: whatever the channel held and the export calls returned, the worker
\* is at a position of its loop and has a next step to take; no state of the
\* program is a signal that stops it.
C22_NoTerminalState ==
  pcW \in LoopPositions /\ ENABLED Worker

C22_Witness ==
  /\ pcW = "decide"
  /\ delivered # << >> /\ Len(delivered) < wall - QueueCapacity
  /\ Len(queue) = QueueCapacity
  /\ wall = MaxEvents /\ \A t \in Threads : pcP[t] = "idle"

\* C23: a call that returned Ok ends the retry loop whatever its response
\* says: the worker goes to reset the clock, the request is gone and its
\* records are not back in the buffer; and every response is taken so.
C23_OkEndsFlush ==
  /\ [](pcW = "call" => \A resp \in Responses(request) : ENABLED ExportOk(resp))
  /\ [][ (pcW = "call" /\ pcW' # "call" /\ calls'[Len(calls')].ok) =>
           /\ pcW' = "reset"
           /\ request' = NoRequest
           /\ buffer' = << >>
           /\ delivered' = delivered \o request.log_records ]_vars

C23_Witness ==
  /\ pcW = "reset"
  /\ calls[Len(calls)].response.partial_success.some
  /\ calls[Len(calls)].response.partial_success.value.rejected_log_records = FlushCount
  /\ Len(calls[Len(calls)].request.log_records) = FlushCount

\* C24: a captured record carries the one clock value its on_event call read
\* as both timestamps, and a record on the channel, in the buffer, in the
\* request or delivered is, field for field, a record as on_event built it.
C24_OneClockReadUnmodified ==
  /\ [](\A i \in 1..Len(Held) :
          Held[i].observed_time_unix_nano = Held[i].time_unix_nano)
  /\ [][ /\ \A t \in Threads :
              (pcP[t] = "idle" /\ pcP'[t] = "send") =>
                /\ wall' = wall + 1
                /\ pending'[t].time_unix_nano = wall'
                /\ pending'[t].observed_time_unix_nano = wall'
         /\ \A r \in Range(Held') :
              r \in Range(Held) \/ \E t \in Threads : r = pending[t] /\ pcP[t] = "send" ]_vars

C24_Witness ==
  /\ Len(delivered) = MaxEvents
  /\ \E i \in 1..Len(delivered) :
       /\ delivered[i].time_unix_nano = MaxEvents
       /\ delivered[i].observed_time_unix_nano = MaxEvents

\* The keys of a record's attribute entries.
AttributeKeys(r) == {r.attributes[i].key : i \in 1..Len(r.attributes)}

\* C25: the record on_event builds for an event has a "file" entry exactly
\* when the event's metadata has a file and a "line" entry exactly when it
\* has a line, and no entry of it is without a value.
C25_AbsentAttributeOmitted ==
  [][ \A t \in Threads, e \in Events :
        ( /\ e.level \in {"INFO", "WARN", "ERROR"}
          /\ "message" \in DOMAIN e.fields
          /\ OnEvent(t, e, MaxCaptured) ) =>
          /\ "file" \in AttributeKeys(pending'[t]) <=> e.file.some
          /\ "line" \in AttributeKeys(pending'[t]) <=> e.line.some
          /\ \A i \in 1..Len(pending'[t].attributes) :
               pending'[t].attributes[i].value.some ]_vars

\* C26: every request is built by emptying the buffer into it, so from the
\* first call of a flush to its end the buffer is empty, and the request of
\* every call after a failed one carries no record.
C26_RetryCarriesNothing ==
  /\ [](pcW \in {"call", "retry_sleep", "reset"} => buffer = << >>)
  /\ []((pcW = "build" /\ calls # << >>) => buffer = << >>)
  /\ []((pcW = "call" /\ calls # << >>) => request.log_records = << >>)
  /\ [](\A i \in 2..Len(calls) : calls[i].request.log_records = << >>)
  /\ [][ (pcW = "build" /\ pcW' = "call") =>
           (request'.log_records = buffer /\ buffer' = << >>) ]_vars

C26_Witness ==
  /\ pcW = "reset" /\ Len(calls) = 2
  /\ Len(calls[1].request.log_records) = BufferCap /\ ~calls[1].ok
  /\ calls[2].request.log_records = << >> /\ calls[2].ok
  /\ delivered = << >>

\* C27: at the decision with FlushMillis elapsed and an empty buffer the
\* worker goes to build a request; that request carries no record and is
\* handed to client.export; the step after the call that returned Ok sets
\* last_send to now.
C27_EmptyTimeFlush ==
  [][ /\ (pcW = "decide" /\ pcW' # "decide" /\ elapsed >= FlushMillis /\ buffer = << >>) =>
           (pcW' = "build" /\ calls = << >>)
      /\ (pcW = "build" /\ pcW' # "build" /\ buffer = << >>) =>
           (pcW' = "call" /\ request'.log_records = << >>)
      /\ (pcW = "call" /\ pcW' # "call" /\ request.log_records = << >>) =>
           /\ calls' = Append(calls, calls'[Len(calls')])
           /\ calls'[Len(calls')].request = request
           /\ calls'[Len(calls')].ok => pcW' = "reset"
      /\ (pcW = "reset" /\ pcW' # "reset") => (pcW' = "drain" /\ elapsed' = 0) ]_vars

C27_Witness ==
  /\ pcW = "reset" /\ elapsed = FlushMillis
  /\ Len(calls) = 1 /\ calls[1].ok /\ calls[1].request.log_records = << >>
  /\ wall = 0 /\ queue = << >>

\* C28: a drain pass starts with fewer than FlushCount records in the buffer,
\* and the channel, the buffer and the request in flight together never hold
\* more than QueueCapacity + BufferCap records.
C28_PipelineBounded ==
  /\ [](Len(queue) + Len(buffer) + Len(request.log_records) <= QueueCapacity + BufferCap)
  /\ [][ (pcW # "drain" /\ pcW' = "drain") => Len(buffer') < FlushCount ]_vars

C28_Witness ==
  /\ Len(queue) = QueueCapacity
  /\ Len(request.log_records) = BufferCap
  /\ pcP["t1"] = "send" /\ wall = MaxLoad

\* C29: with every flush coming to a call that returns Ok, a thread inside
\* send on a full channel, during an export or not, does get its record onto
\* the channel and returns from on_event: the next drain pass takes records
\* off the channel, and a send is never held back while the channel has room.
C29_BlockedProducerUnblocked ==
  /\ [](\A t \in Threads :
          (pcP[t] = "send" /\ Len(queue) < QueueCapacity) => ENABLED Send(t))
  /\ \A t \in Threads :
       (pcP[t] = "send" /\ Len(queue) = QueueCapacity) ~> (pcP[t] = "idle")

C29_Witness ==
  /\ pcW = "drain" /\ calls = << >> /\ elapsed = 0
  /\ Len(queue) = QueueCapacity
  /\ \A t \in Threads : pcP[t] = "send"
  /\ wall = MaxEvents

====
